---- MODULE Spec2Model ----
(***************************************************************************)
(* A model of helpers/Clustering.py: enrichment of a drug graph with the   *)
(* target genes of each drug, reduction to the largest connected           *)
(* component, four clustering strategies, the per-cluster analysis of      *)
(* dominant target genes, and the driver compare_clustering.               *)
(*                                                                         *)
(* A graph is a record [nodes, edges, attr]: nodes is a set of naturals     *)
(* (iterated in ascending order, the insertion order), edges a set of      *)
(* two-element sets, and attr gives each node a reference to its attribute *)
(* dictionary.  The heap holds the objects that can be shared: dicts, the  *)
(* attribute dictionaries [label, genes], each key present when its set is *)
(* not empty (genes holding a reference to a list), and lists, the gene    *)
(* lists.  A reference is an index, so two holders of the same reference   *)
(* hold the same Python object.                                            *)
(***************************************************************************)
EXTENDS Integers, Sequences, FiniteSets, TLC

\* ------------------------------------------------------------------ bounds
MaxNodes == 5
MaxUnitNodes == 3
MaxGenesLen == 2
MaxMutations == 2

\* ------------------------------------------------------- program constants
\* n_clusters=5 in the registry of compare_clustering
NClusters == 5
\* frequency_threshold=0.25, as the fraction ThresholdNum / ThresholdDen
ThresholdNum == 1
ThresholdDen == 4

Labels == {"d1", "d2"}
LabelSeq == <<"d1", "d2">>
Genes == {"g1", "g2"}
\* The community ids the libraries choose among, the cluster positions of a
\* partition given to the analysis, and the thresholds tried (num, den)
CommunityIds == {0, 1, 2}
ClusterIds == {1, 2}
Thresholds == {<<1, 4>>, <<1, 2>>, <<1, 1>>}
\* The registry of compare_clustering, in registration order
Registry == <<"Girvan-Newman", "Label Propagation", "Louvain", "Spectral Clustering">>

VARIABLES
    file,               \* the mapping file: [state, content]
    heap,               \* the shared objects: [dicts, lists]
    drug_gene_data,     \* the loaded mapping: label -> entry (key -> reference)
    graph,              \* the graph passed in
    graph_lcc,          \* the value returned by largest_connected_component
    pc,                 \* position of the caller
    error,              \* the exception that ended the call, [type, in]
    name,               \* index of the current strategy in the registry
    clusters,           \* the partition returned by the current strategy
    frequent_genes,     \* the report of analyze_cluster_targets (index idx+1)
    frequency_threshold,\* the threshold, <<numerator, denominator>>
    reported,           \* strategies whose cluster sizes were printed
    plots,              \* strategies whose plot was saved
    graph_in,           \* deep view of the graph as it was passed in
    source_at_return,   \* deep view of graph when graph_lcc was returned
    mutations           \* number of later changes made through graph_lcc

vars == <<file, heap, drug_gene_data, graph, graph_lcc, pc, error, name,
          clusters, frequent_genes, frequency_threshold, reported, plots,
          graph_in, source_at_return, mutations>>

\* ----------------------------------------------------------------- helpers
NoError == [type |-> "none", in |-> "none"]
Raised(t, f) == [type |-> t, in |-> f]

EmptyMapping == [l \in {} |-> [k \in {} |-> 0]]

EmptyGraph == [nodes |-> {}, edges |-> {}, attr |-> [n \in {} |-> 0]]

EmptyHeap == [dicts |-> <<>>, lists |-> <<>>]

\* The one element of a set that has one
The(S) == CHOOSE x \in S : TRUE

\* graph.nodes[node]: the attribute dictionary of the node
AttrOf(g, h, node) == h.dicts[g.attr[node]]

\* graph.nodes[node]['label']
LabelOf(g, h, node) == The(AttrOf(g, h, node).label)

Min(S) == CHOOSE x \in S : \A y \in S : x <= y

\* list(graph.nodes): the nodes in iteration order
RECURSIVE NodeList(_)
NodeList(S) == IF S = {} THEN <<>> ELSE <<Min(S)>> \o NodeList(S \ {Min(S)})

Range(s) == {s[i] : i \in DOMAIN s}

\* The lists of length at most n over Genes
ListsUpTo(n) == UNION {[1..k -> Genes] : k \in 0..n}

\* What a reader of the graph sees: the attributes with the lists' contents
DeepView(g, h) ==
    [nodes |-> g.nodes, edges |-> g.edges,
     attrs |-> [n \in g.nodes |->
                  [label |-> AttrOf(g, h, n).label,
                   keys  |-> IF AttrOf(g, h, n).genes = {} THEN {} ELSE {"genes"},
                   genes |-> IF AttrOf(g, h, n).genes = {} THEN <<>>
                             ELSE h.lists[The(AttrOf(g, h, n).genes)]]]]

\* --------------------------------------------------- enrich_graph_with_genes
\* drug_gene_data.get(drug_label, {}).get("genes", []) finds a list
HasGenes(data, drug_label) ==
    /\ drug_label \in DOMAIN data
    /\ "genes" \in DOMAIN data[drug_label]

\* A slip: a node whose label has no list gets no attribute at all
EnrichNodeSkipMissing(g, h, data, node) ==
    IF HasGenes(data, LabelOf(g, h, node))
    THEN [h EXCEPT !.dicts[g.attr[node]].genes =
                        {data[LabelOf(g, h, node)]["genes"]}]
    ELSE h

\* One iteration of the loop: the node's 'genes' becomes the mapping's own
\* list object, or a new empty list when the label or the key is missing.
EnrichNode(g, h, data, node) ==
    IF HasGenes(data, LabelOf(g, h, node))
    THEN [h EXCEPT !.dicts[g.attr[node]].genes =
                        {data[LabelOf(g, h, node)]["genes"]}]
    ELSE [dicts |-> [h.dicts EXCEPT ![g.attr[node]].genes = {Len(h.lists) + 1}],
          lists |-> Append(h.lists, <<>>)]

RECURSIVE EnrichLoop(_, _, _, _)
EnrichLoop(g, h, data, todo) ==
    IF todo = <<>> THEN h
    ELSE EnrichLoop(g, EnrichNode(g, h, data, Head(todo)), data, Tail(todo))

\* The heap after enrich_graph_with_genes(g, data): the dictionaries of the
\* nodes are changed in place
enrich_graph_with_genes(g, h, data) ==
    EnrichLoop(g, h, data, NodeList(g.nodes))

\* ----------------------------------------------- largest_connected_component
\* networkx _plain_bfs: the nodes reachable from the nodes of seen
RECURSIVE PlainBfs(_, _)
PlainBfs(g, seen) ==
    LET nxt == seen \cup {w \in g.nodes : \E u \in seen : {u, w} \in g.edges}
    IN  IF nxt = seen THEN seen ELSE PlainBfs(g, nxt)

\* nx.connected_components: one component per node not seen yet, in node order
RECURSIVE ComponentsFrom(_, _)
ComponentsFrom(g, todo) ==
    IF todo = {} THEN <<>>
    ELSE LET c == PlainBfs(g, {Min(todo)})
         IN  <<c>> \o ComponentsFrom(g, todo \ c)

connected_components(g) == ComponentsFrom(g, g.nodes)

\* A slip: the first component instead of the largest
MaxByLenFirst(comps) == comps[1]

\* max(components, key=len): the first component of the greatest size
MaxByLen(comps) ==
    comps[CHOOSE i \in DOMAIN comps :
            /\ \A j \in DOMAIN comps : Cardinality(comps[j]) <= Cardinality(comps[i])
            /\ \A j \in 1..(i - 1) : Cardinality(comps[j]) < Cardinality(comps[i])]

\* Position of a node in a list of nodes
IndexOf(nodes, n) == CHOOSE i \in DOMAIN nodes : nodes[i] = n

\* A slip: graph.subgraph(lcc) without .copy() is a view, whose nodes keep
\* the attribute dictionaries of the source graph
SubgraphView(g, h, keep) ==
    [graph |-> [nodes |-> keep,
                edges |-> {e \in g.edges : e \subseteq keep},
                attr  |-> [n \in keep |-> g.attr[n]]],
     heap  |-> h]

\* graph.subgraph(lcc).copy(): a new graph with its own nodes and edges and
\* a new attribute dictionary for each node, made by dict.copy(), so that
\* the values of the attributes are the objects the source holds
SubgraphCopy(g, h, keep) ==
    [graph |-> [nodes |-> keep,
                edges |-> {e \in g.edges : e \subseteq keep},
                attr  |-> [n \in keep |->
                             Len(h.dicts) + IndexOf(NodeList(keep), n)]],
     heap  |-> [h EXCEPT !.dicts =
                  h.dicts \o [i \in 1..Cardinality(keep) |->
                                AttrOf(g, h, NodeList(keep)[i])]]]

\* The returned graph and the heap after largest_connected_component(g)
largest_connected_component(g, h) ==
    SubgraphCopy(g, h, MaxByLen(connected_components(g)))

\* ------------------------------------------------- analyze_cluster_targets
\* graph.nodes[node].get('genes', []): the contents of the node's list
TargetGenes(g, h, node) ==
    IF AttrOf(g, h, node).genes = {} THEN <<>>
    ELSE h.lists[The(AttrOf(g, h, node).genes)]

\* Counter.update on one element: a Counter is the sequence of its items,
\* in insertion order, each [gene, count]
CounterAdd(counter, gene) ==
    IF \E i \in DOMAIN counter : counter[i].gene = gene
    THEN [i \in DOMAIN counter |->
            IF counter[i].gene = gene
            THEN [counter[i] EXCEPT !.count = @ + 1]
            ELSE counter[i]]
    ELSE Append(counter, [gene |-> gene, count |-> 1])

\* target_counter.update(target_genes): one count per occurrence in the list
RECURSIVE CounterUpdate(_, _)
CounterUpdate(counter, target_genes) ==
    IF target_genes = <<>> THEN counter
    ELSE CounterUpdate(CounterAdd(counter, Head(target_genes)), Tail(target_genes))

\* The loop over the members of one cluster
RECURSIVE CountCluster(_, _, _, _)
CountCluster(g, h, cluster, counter) ==
    IF cluster = <<>> THEN counter
    ELSE CountCluster(g, h, Tail(cluster),
                      CounterUpdate(counter, TargetGenes(g, h, Head(cluster))))

\* A slip: the frequency is computed whether or not there is a gene to test
DominantTargetsEager(counter, cluster_size, t) ==
    LET kept == SelectSeq(counter,
                    LAMBDA it : it.count * t[2] >= t[1] * cluster_size)
    IN  [raised |-> cluster_size = 0,
         value  |-> [i \in DOMAIN kept |-> kept[i].gene]]

\* The comprehension: count / cluster_size >= frequency_threshold, the
\* threshold being t[1] / t[2]; the division is evaluated once per item of
\* the counter, so it raises only when there is an item and the size is 0
DominantTargets(counter, cluster_size, t) ==
    LET kept == SelectSeq(counter,
                    LAMBDA it : it.count * t[2] >= t[1] * cluster_size)
    IN  [raised |-> counter # <<>> /\ cluster_size = 0,
         value  |-> [i \in DOMAIN kept |-> kept[i].gene]]

\* The body of the loop for one cluster
AnalyzeCluster(g, h, cluster, t) ==
    DominantTargets(CountCluster(g, h, cluster, <<>>), Len(cluster), t)

\* analyze_cluster_targets: the report (cluster_analysis[idx] is value[idx+1])
\* or the ZeroDivisionError
analyze_cluster_targets(g, h, cls, t) ==
    [raised |-> \E i \in DOMAIN cls : AnalyzeCluster(g, h, cls[i], t).raised,
     value  |-> [i \in DOMAIN cls |-> AnalyzeCluster(g, h, cls[i], t).value]]

\* ------------------------------------------------------ clustering strategies
\* Python's order on lists
LexLess(a, b) ==
    \E i \in 1..(Len(a) + 1) :
        /\ i <= Len(b)
        /\ \A j \in 1..(i - 1) : a[j] = b[j]
        /\ i <= Len(a) => a[i] < b[i]

\* A slip: one list object shared by every key, so each node joins all clusters
SetdefaultAppendShared(cl, key, node) ==
    LET shared == (IF cl = <<>> THEN <<>> ELSE cl[1].members) \o <<node>>
        keys   == IF \E i \in DOMAIN cl : cl[i].key = key
                  THEN [i \in DOMAIN cl |-> cl[i].key]
                  ELSE [i \in DOMAIN cl |-> cl[i].key] \o <<key>>
    IN  [i \in DOMAIN keys |-> [key |-> keys[i], members |-> shared]]

\* clusters.setdefault(key, []).append(node): the dict is the sequence of its
\* items, in insertion order, each [key, members]
SetdefaultAppend(cl, key, node) ==
    IF \E i \in DOMAIN cl : cl[i].key = key
    THEN [i \in DOMAIN cl |->
            IF cl[i].key = key
            THEN [cl[i] EXCEPT !.members = Append(@, node)]
            ELSE cl[i]]
    ELSE Append(cl, [key |-> key, members |-> <<node>>])

\* The regrouping loop over the pairs <<node, label>>
RECURSIVE GroupItems(_, _)
GroupItems(items, cl) ==
    IF items = <<>> THEN cl
    ELSE GroupItems(Tail(items),
                    SetdefaultAppend(cl, Head(items)[2], Head(items)[1]))

\* sorted(list(clusters.values()))
SortedValues(cl) == SortSeq([i \in DOMAIN cl |-> cl[i].members], LexLess)

\* [sorted(list(c)) for c in communities]
SortedEach(comms) == [i \in DOMAIN comms |-> NodeList(comms[i])]

WithoutEdges(g, R) == [g EXCEPT !.edges = g.edges \ R]

\* networkx girvan_newman, first level: edges are removed one at a time
\* until the number of components grows; the edge chosen each time is the
\* library's choice.  A graph without edges yields its components.
GirvanNewmanFirst(g) ==
    IF g.edges = {} THEN {connected_components(g)}
    ELSE {connected_components(WithoutEdges(g, R)) :
            R \in {Q \in SUBSET g.edges :
                    /\ Len(connected_components(WithoutEdges(g, Q)))
                         > Len(connected_components(g))
                    /\ \E e \in Q :
                         Len(connected_components(WithoutEdges(g, Q \ {e})))
                           = Len(connected_components(g))}}

girvan_newman_clustering(g) == {SortedEach(c) : c \in GirvanNewmanFirst(g)}

\* The communities of a labelling, in the order of the labels
RECURSIVE CommunitiesOf(_, _, _)
CommunitiesOf(g, lab, ids) ==
    IF ids = {} THEN <<>>
    ELSE LET c == {n \in g.nodes : lab[n] = Min(ids)}
         IN  (IF c = {} THEN <<>> ELSE <<c>>)
               \o CommunitiesOf(g, lab, ids \ {Min(ids)})

\* networkx label_propagation_communities: the communities of the labelling
\* the library converges to, which is the library's choice
LabelPropagationCommunities(g) ==
    {CommunitiesOf(g, lab, CommunityIds) :
        lab \in [g.nodes -> CommunityIds]}

label_propagation_clustering(g) ==
    {SortedEach(c) : c \in LabelPropagationCommunities(g)}

\* partition.items(): the pairs <<node, community_id>> in node order
Items(nodes, lab) == [i \in DOMAIN nodes |-> <<nodes[i], lab[nodes[i]]>>]

\* community_louvain.best_partition: a community id for every node, the
\* library's choice
louvain_clustering(g) ==
    {SortedValues(GroupItems(Items(NodeList(g.nodes), partition), <<>>)) :
        partition \in [g.nodes -> CommunityIds]}

\* SpectralClustering.fit_predict rejects fewer samples than clusters
SpectralRaises(g, n_clusters) == Cardinality(g.nodes) < n_clusters

\* zip(graph.nodes, labels): labels[i] is the label of the i-th node
Zip(nodes, labels) == [i \in DOMAIN nodes |-> <<nodes[i], labels[i]>>]

\* The partitions spectral_clustering can return, the labels being the
\* library's choice among 0 .. n_clusters-1
spectral_clustering(g, n_clusters) ==
    {SortedValues(GroupItems(Zip(NodeList(g.nodes), labels), <<>>)) :
        labels \in [1..Cardinality(g.nodes) -> 0..(n_clusters - 1)]}

\* ---------------------------------------------------------------- inputs
\* What the mapping file says of one label: no entry, an entry without the
\* "genes" key, or an entry with a list
FileEntries(lists) ==
    {[kind |-> "absent", genes |-> <<>>], [kind |-> "nokey", genes |-> <<>>]}
      \cup {[kind |-> "genes", genes |-> l] : l \in lists}

\* The reference json.load gives the list of the i-th label: lists are
\* created in the order of LabelSeq, after the base lists the heap holds
RefOf(content, base, i) ==
    base + Cardinality({j \in 1..i : content[LabelSeq[j]].kind = "genes"})

RECURSIVE ListsOf(_, _)
ListsOf(content, i) ==
    IF i > Len(LabelSeq) THEN <<>>
    ELSE (IF content[LabelSeq[i]].kind = "genes"
          THEN <<content[LabelSeq[i]].genes>> ELSE <<>>)
           \o ListsOf(content, i + 1)

\* json.load(f): the dictionary, its lists being new objects of the heap
LoadedMapping(content, base) ==
    [l \in {LabelSeq[i] : i \in {j \in DOMAIN LabelSeq :
                                   content[LabelSeq[j]].kind # "absent"}} |->
        LET i == CHOOSE j \in DOMAIN LabelSeq : LabelSeq[j] = l
        IN  [k \in (IF content[l].kind = "genes" THEN {"genes"} ELSE {}) |->
                RefOf(content, base, i)]]

NoContent == [l \in Labels |-> [kind |-> "absent", genes |-> <<>>]]

\* The edges a graph on 1..n is drawn from: the path 1-2-...-n and the chord
\* closing it
EdgePool(n) ==
    {{i, i + 1} : i \in 1..(n - 1)} \cup (IF n >= 3 THEN {{1, n}} ELSE {})

\* A graph as its builder hands it over: each node with its own attribute
\* dictionary, which holds its label
InputGraph(n, E, lab) ==
    [graph |-> [nodes |-> 1..n, edges |-> E, attr |-> [v \in 1..n |-> v]],
     dicts |-> [v \in 1..n |-> [label |-> {lab[v]}, genes |-> {}]]]

\* The graphs given to compare_clustering: every node carries a label
DriverGraphs ==
    UNION {{InputGraph(n, E, lab) :
              E \in SUBSET EdgePool(n),
              lab \in {[v \in 1..n |-> "d1"],
                       [v \in 1..n |-> IF v % 2 = 1 THEN "d1" ELSE "d2"]}} :
           n \in 0..MaxNodes}

DriverFiles ==
    {[state |-> "missing", content |-> NoContent],
     [state |-> "malformed", content |-> NoContent],
     [state |-> "ok", content |-> [NoContent EXCEPT
            !["d1"] = [kind |-> "genes", genes |-> <<"g1", "g2">>]]],
     [state |-> "ok", content |-> [NoContent EXCEPT
            !["d1"] = [kind |-> "genes", genes |-> <<"g1", "g1">>],
            !["d2"] = [kind |-> "genes", genes |-> <<"g2">>]]]}

\* The graphs and mappings the single functions are called on
UnitGraphs ==
    UNION {{InputGraph(n, {}, lab) : lab \in [1..n -> Labels]} :
           n \in 0..MaxUnitNodes}

UnitContents ==
    {[l \in Labels |-> IF l = "d1" THEN a ELSE b] :
        a \in FileEntries(ListsUpTo(MaxGenesLen)),
        b \in FileEntries(ListsUpTo(1))}

CopyGraphs ==
    UNION {{InputGraph(n, E, lab) :
              E \in SUBSET EdgePool(n),
              lab \in {[v \in 1..n |-> IF v % 2 = 1 THEN "d1" ELSE "d2"]}} :
           n \in 1..MaxUnitNodes}

CopyContents ==
    {[NoContent EXCEPT !["d1"] = [kind |-> "genes", genes |-> <<"g1">>]],
     [NoContent EXCEPT !["d1"] = [kind |-> "genes", genes |-> <<>>],
                       !["d2"] = [kind |-> "nokey", genes |-> <<>>]]}

\* ------------------------------------------------------------------ states
InitWith(f, g, p) ==
    /\ file = f
    /\ graph = g.graph
    /\ heap = [dicts |-> g.dicts, lists |-> <<>>]
    /\ graph_in = DeepView(g.graph, [dicts |-> g.dicts, lists |-> <<>>])
    /\ pc = p
    /\ drug_gene_data = EmptyMapping
    /\ graph_lcc = EmptyGraph
    /\ error = NoError
    /\ name = 1
    /\ clusters = <<>>
    /\ frequent_genes = <<>>
    /\ frequency_threshold = <<ThresholdNum, ThresholdDen>>
    /\ reported = {}
    /\ plots = {}
    /\ source_at_return = DeepView(EmptyGraph, EmptyHeap)
    /\ mutations = 0

\* compare_clustering(graph) is entered
Init == \E f \in DriverFiles, g \in DriverGraphs : InitWith(f, g, "load")

Abort(t, f) ==
    /\ pc' = "aborted"
    /\ error' = Raised(t, f)

\* ------------------------------------------------------ load_drug_gene_data
\* os.path.exists fails: exit(...) raises SystemExit
LoadMissingAt(from) ==
    /\ pc = from
    /\ file.state = "missing"
    /\ Abort("SystemExit", "load_drug_gene_data")
    /\ UNCHANGED <<file, heap, drug_gene_data, graph, graph_lcc, name, clusters,
                   frequent_genes, frequency_threshold, reported, plots,
                   graph_in, source_at_return, mutations>>

\* json.load fails on a file that is not JSON
LoadMalformedAt(from) ==
    /\ pc = from
    /\ file.state = "malformed"
    /\ Abort("JSONDecodeError", "load_drug_gene_data")
    /\ UNCHANGED <<file, heap, drug_gene_data, graph, graph_lcc, name, clusters,
                   frequent_genes, frequency_threshold, reported, plots,
                   graph_in, source_at_return, mutations>>

LoadOkAt(from, to) ==
    /\ pc = from
    /\ file.state = "ok"
    /\ drug_gene_data' = LoadedMapping(file.content, Len(heap.lists))
    /\ heap' = [heap EXCEPT !.lists = @ \o ListsOf(file.content, 1)]
    /\ pc' = to
    /\ UNCHANGED <<file, graph, graph_lcc, error, name, clusters,
                   frequent_genes, frequency_threshold, reported, plots,
                   graph_in, source_at_return, mutations>>

\* -------------------------------------------------- enrich_graph_with_genes
EnrichAt(from, to) ==
    /\ pc = from
    /\ heap' = enrich_graph_with_genes(graph, heap, drug_gene_data)
    /\ pc' = to
    /\ UNCHANGED <<file, drug_gene_data, graph, graph_lcc, error, name, clusters,
                   frequent_genes, frequency_threshold, reported, plots,
                   graph_in, source_at_return, mutations>>

\* ---------------------------------------------- largest_connected_component
\* max() of no component raises ValueError
ReduceEmptyAt(from) ==
    /\ pc = from
    /\ graph.nodes = {}
    /\ Abort("ValueError", "largest_connected_component")
    /\ UNCHANGED <<file, heap, drug_gene_data, graph, graph_lcc, name, clusters,
                   frequent_genes, frequency_threshold, reported, plots,
                   graph_in, source_at_return, mutations>>

ReduceAt(from, to) ==
    /\ pc = from
    /\ graph.nodes # {}
    /\ LET r == largest_connected_component(graph, heap)
       IN  /\ graph_lcc' = r.graph
           /\ heap' = r.heap
           /\ source_at_return' = DeepView(graph, r.heap)
    /\ pc' = to
    /\ UNCHANGED <<file, drug_gene_data, graph, error, name, clusters,
                   frequent_genes, frequency_threshold, reported, plots,
                   graph_in, mutations>>

\* ------------------------------------------------------- compare_clustering
LoadMissing == LoadMissingAt("load")
LoadMalformed == LoadMalformedAt("load")
LoadOk == LoadOkAt("load", "enrich")
Enrich == EnrichAt("enrich", "reduce")
ReduceEmpty == ReduceEmptyAt("reduce")
Reduce == ReduceAt("reduce", "cluster")

\* The loop is at the strategy at position i of the registry
AtStrategy(i) ==
    /\ pc = "cluster"
    /\ name = i

\* clusters = algorithm(graph_lcc)
Clustered(c) ==
    /\ clusters' = c
    /\ pc' = "analyze"
    /\ UNCHANGED <<file, heap, drug_gene_data, graph, graph_lcc, error, name,
                   frequent_genes, frequency_threshold, reported, plots,
                   graph_in, source_at_return, mutations>>

GirvanNewman ==
    /\ AtStrategy(1)
    /\ \E c \in girvan_newman_clustering(graph_lcc) : Clustered(c)

LabelPropagation ==
    /\ AtStrategy(2)
    /\ \E c \in label_propagation_clustering(graph_lcc) : Clustered(c)

Louvain ==
    /\ AtStrategy(3)
    /\ \E c \in louvain_clustering(graph_lcc) : Clustered(c)

Spectral ==
    /\ AtStrategy(4)
    /\ ~SpectralRaises(graph_lcc, NClusters)
    /\ \E c \in spectral_clustering(graph_lcc, NClusters) : Clustered(c)

\* fit_predict raises: nothing catches it, compare_clustering ends
SpectralFail ==
    /\ AtStrategy(4)
    /\ SpectralRaises(graph_lcc, NClusters)
    /\ Abort("ValueError", "spectral_clustering")
    /\ UNCHANGED <<file, heap, drug_gene_data, graph, graph_lcc, name, clusters,
                   frequent_genes, frequency_threshold, reported, plots,
                   graph_in, source_at_return, mutations>>

\* The sizes are printed, then analyze_cluster_targets(graph_lcc, clusters)
AnalyzeAt(from, to) ==
    /\ pc = from
    /\ reported' = reported \cup {name}
    /\ LET r == analyze_cluster_targets(graph_lcc, heap, clusters, frequency_threshold)
       IN  IF r.raised
           THEN /\ Abort("ZeroDivisionError", "analyze_cluster_targets")
                /\ UNCHANGED frequent_genes
           ELSE /\ frequent_genes' = r.value
                /\ pc' = to
                /\ UNCHANGED error
    /\ UNCHANGED <<file, heap, drug_gene_data, graph, graph_lcc, name, clusters,
                   frequency_threshold, plots, graph_in, source_at_return,
                   mutations>>

Analyze == AnalyzeAt("analyze", "visualize")

\* visualize_clusters saves the plot; the loop goes on to the next strategy.
\* clusters and frequent_genes are not read again before they are rebound,
\* so the end of the iteration forgets them.
Visualize ==
    /\ pc = "visualize"
    /\ plots' = plots \cup {name}
    /\ clusters' = <<>>
    /\ frequent_genes' = <<>>
    /\ IF name < Len(Registry)
       THEN /\ name' = name + 1
            /\ pc' = "cluster"
       ELSE /\ name' = name
            /\ pc' = "done"
    /\ UNCHANGED <<file, heap, drug_gene_data, graph, graph_lcc, error,
                   frequency_threshold, reported,
                   graph_in, source_at_return, mutations>>

Next ==
    \/ LoadMissing
    \/ LoadMalformed
    \/ LoadOk
    \/ Enrich
    \/ ReduceEmpty
    \/ Reduce
    \/ GirvanNewman
    \/ LabelPropagation
    \/ Louvain
    \/ Spectral
    \/ SpectralFail
    \/ Analyze
    \/ Visualize

Spec == Init /\ [][Next]_vars

\* ------------------------------------------- the functions called one by one
\* A test loads a mapping, enriches a graph and analyzes a partition of it:
\* clusters[i] holds the nodes given position i, some nodes in no cluster
UnitLoad == LoadOkAt("unit_load", "unit_enrich")
UnitEnrich == EnrichAt("unit_enrich", "unit_analyze")

AnalyzeCall ==
    /\ pc = "unit_analyze"
    /\ \E f \in [graph.nodes -> {0} \cup ClusterIds], t \in Thresholds :
         LET cls == [i \in ClusterIds |-> NodeList({n \in graph.nodes : f[n] = i})]
             r   == analyze_cluster_targets(graph, heap, cls, t)
         IN  /\ clusters' = cls
             /\ frequency_threshold' = t
             /\ IF r.raised
                THEN /\ Abort("ZeroDivisionError", "analyze_cluster_targets")
                     /\ UNCHANGED frequent_genes
                ELSE /\ frequent_genes' = r.value
                     /\ pc' = "analyzed"
                     /\ UNCHANGED error
    /\ UNCHANGED <<file, heap, drug_gene_data, graph, graph_lcc, name, reported,
                   plots, graph_in, source_at_return, mutations>>

InitUnits ==
    \E g \in UnitGraphs, c \in UnitContents :
        InitWith([state |-> "ok", content |-> c], g, "unit_load")

NextUnits == UnitLoad \/ UnitEnrich \/ AnalyzeCall

SpecUnits == InitUnits /\ [][NextUnits]_vars

\* ------------------------- the caller changes the graph that was returned
\* A caller loads, enriches, reduces, and then changes graph_lcc through the
\* networkx interface; the copy made by largest_connected_component decides
\* what of this reaches graph.
CopyLoad == LoadOkAt("copy_load", "copy_enrich")
CopyEnrich == EnrichAt("copy_enrich", "copy_reduce")
CopyReduce == ReduceAt("copy_reduce", "returned")

Mutating ==
    /\ pc = "returned"
    /\ mutations < MaxMutations
    /\ mutations' = mutations + 1
    /\ UNCHANGED <<file, drug_gene_data, graph, pc, error, name, clusters,
                   frequent_genes, frequency_threshold, reported, plots,
                   graph_in, source_at_return>>

\* graph_lcc.add_node(v): a node with a new, empty attribute dictionary
AddNode ==
    /\ Mutating
    /\ \E v \in (1..(MaxUnitNodes + 1)) \ graph_lcc.nodes :
         /\ graph_lcc' = [graph_lcc EXCEPT
                !.nodes = @ \cup {v},
                !.attr = [n \in graph_lcc.nodes \cup {v} |->
                            IF n = v THEN Len(heap.dicts) + 1 ELSE graph_lcc.attr[n]]]
         /\ heap' = [heap EXCEPT !.dicts = Append(@, [label |-> {}, genes |-> {}])]

\* graph_lcc.remove_node(v)
RemoveNode ==
    /\ Mutating
    /\ \E v \in graph_lcc.nodes :
         graph_lcc' =
            [nodes |-> graph_lcc.nodes \ {v},
             edges |-> {e \in graph_lcc.edges : v \notin e},
             attr  |-> [n \in graph_lcc.nodes \ {v} |-> graph_lcc.attr[n]]]
    /\ UNCHANGED heap

\* graph_lcc.add_edge(u, v)
AddEdge ==
    /\ Mutating
    /\ \E u \in graph_lcc.nodes, v \in graph_lcc.nodes :
         /\ u < v
         /\ {u, v} \notin graph_lcc.edges
         /\ graph_lcc' = [graph_lcc EXCEPT !.edges = @ \cup {{u, v}}]
    /\ UNCHANGED heap

\* graph_lcc.remove_edge(u, v)
RemoveEdge ==
    /\ Mutating
    /\ \E e \in graph_lcc.edges :
         graph_lcc' = [graph_lcc EXCEPT !.edges = @ \ {e}]
    /\ UNCHANGED heap

\* graph_lcc.nodes[v]['label'] = l: the node's dictionary changes in place
SetLabel ==
    /\ Mutating
    /\ \E v \in graph_lcc.nodes, l \in Labels :
         heap' = [heap EXCEPT !.dicts[graph_lcc.attr[v]].label = {l}]
    /\ UNCHANGED graph_lcc

\* graph_lcc.nodes[v]['genes'] = [g]: the key is bound to a new list
SetGenes ==
    /\ Mutating
    /\ \E v \in graph_lcc.nodes, g \in Genes :
         heap' = [dicts |-> [heap.dicts EXCEPT
                                ![graph_lcc.attr[v]].genes = {Len(heap.lists) + 1}],
                  lists |-> Append(heap.lists, <<g>>)]
    /\ UNCHANGED graph_lcc

\* graph_lcc.nodes[v]['genes'].append(g): the list object itself changes
AppendGene ==
    /\ Mutating
    /\ \E v \in graph_lcc.nodes, g \in Genes :
         /\ AttrOf(graph_lcc, heap, v).genes # {}
         /\ heap' = [heap EXCEPT
                !.lists[The(AttrOf(graph_lcc, heap, v).genes)] = Append(@, g)]
    /\ UNCHANGED graph_lcc

InitCopy ==
    \E g \in CopyGraphs, c \in CopyContents :
        InitWith([state |-> "ok", content |-> c], g, "copy_load")

NextCopy ==
    \/ CopyLoad
    \/ CopyEnrich
    \/ CopyReduce
    \/ AddNode
    \/ RemoveNode
    \/ AddEdge
    \/ RemoveEdge
    \/ SetLabel
    \/ SetGenes
    \/ AppendGene

SpecCopy == InitCopy /\ [][NextCopy]_vars

\* ================================================================== claims
\* Number of members of the cluster whose list contains the gene
MembersWith(gene, cluster) ==
    Cardinality({k \in DOMAIN cluster : gene \in Range(TargetGenes(graph, heap, cluster[k]))})

\* Number of occurrences of the gene in the lists of the members
OccurrencesOf(gene, cluster) ==
    Cardinality(UNION {{<<k, j>> : j \in {i \in DOMAIN TargetGenes(graph, heap, cluster[k]) :
                                            TargetGenes(graph, heap, cluster[k])[i] = gene}} :
                       k \in DOMAIN cluster})

MeetsThreshold(count, size) ==
    /\ size > 0
    /\ count * frequency_threshold[2] >= frequency_threshold[1] * size

\* C1: after analyze_cluster_targets, a gene is reported dominant for the
\* cluster at an index exactly when the number of member nodes whose list
\* contains the gene, divided by the cluster size, reaches the threshold (a
\* gene repeated in one node's list counting once for that node).
C1_DominantIffNodeFrequency ==
    pc = "analyzed" =>
        \A i \in DOMAIN clusters : \A gene \in Genes :
            gene \in Range(frequent_genes[i])
              <=> MeetsThreshold(MembersWith(gene, clusters[i]), Len(clusters[i]))

\* The mapping's list for a label, when the label is a key with a list
MappedGenes(l) ==
    IF file.content[l].kind = "genes" THEN file.content[l].genes ELSE <<>>

Enriched == pc \in {"unit_analyze", "analyzed"} \/ error.in = "analyze_cluster_targets"

\* C2: after enrich_graph_with_genes every node has a 'genes' attribute,
\* equal to M[label].genes when the node's label is a key of M and to an
\* empty list otherwise, and no error was raised.
C2_EveryNodeEnriched ==
    Enriched =>
        /\ error.in # "enrich_graph_with_genes"
        /\ \A n \in graph.nodes :
            /\ AttrOf(graph, heap, n).genes # {}
            /\ TargetGenes(graph, heap, n) = MappedGenes(LabelOf(graph, heap, n))

C2_Witness ==
    /\ pc = "unit_analyze"
    /\ \E n \in graph.nodes :
         /\ file.content[LabelOf(graph, heap, n)].kind = "genes"
         /\ Len(TargetGenes(graph, heap, n)) = MaxGenesLen
    /\ \E n \in graph.nodes :
         /\ file.content[LabelOf(graph, heap, n)].kind = "absent"
         /\ AttrOf(graph, heap, n).genes # {}
         /\ TargetGenes(graph, heap, n) = <<>>

\* A graph is connected when every proper nonempty part of its nodes has an
\* edge leaving it
IsConnected(nodes, edges) ==
    /\ nodes # {}
    /\ \A S \in SUBSET nodes :
          (S # {} /\ S # nodes) =>
              \E e \in edges : e \cap S # {} /\ e \cap (nodes \ S) # {}

\* The greatest size of a connected set of nodes of graph, which is the
\* greatest size of a connected component
MaxComponentSize ==
    LET sizes == {Cardinality(S) : S \in {T \in SUBSET graph.nodes :
                     T # {} /\ IsConnected(T, {e \in graph.edges : e \subseteq T})}}
    IN  CHOOSE m \in sizes : \A k \in sizes : k <= m

Reduced ==
    \/ pc \in {"cluster", "analyze", "visualize", "done"}
    \/ error.in \in {"spectral_clustering", "analyze_cluster_targets"}

\* C3: for a graph with at least one node, largest_connected_component
\* returns a connected subgraph whose node count is the maximum node count
\* over the connected components of the graph.
C3_LargestAndConnected ==
    Reduced =>
        /\ IsConnected(graph_lcc.nodes, graph_lcc.edges)
        /\ graph_lcc.nodes \subseteq graph.nodes
        /\ graph_lcc.edges = {e \in graph.edges : e \subseteq graph_lcc.nodes}
        /\ Cardinality(graph_lcc.nodes) = MaxComponentSize

C3_Witness ==
    /\ pc = "cluster"
    /\ 1 \notin graph_lcc.nodes
    /\ Cardinality(graph_lcc.nodes) >= 2
    /\ Cardinality(graph.nodes) > Cardinality(graph_lcc.nodes) + 1

StrategyFunctions == {"girvan_newman_clustering", "label_propagation_clustering",
                      "louvain_clustering", "spectral_clustering"}

\* C4: when a strategy raises, the driver catches it and goes on: the
\* failure of one strategy never ends the comparison run.
C4_StrategyFailureIsolated ==
    error.in \in StrategyFunctions => pc # "aborted"

SpectralInvoked ==
    \/ name = 4 /\ pc \in {"analyze", "visualize", "done"}
    \/ error.in = "spectral_clustering"

\* C6: spectral_clustering on a graph with fewer than n_clusters nodes fails
\* with an InsufficientNodesError, before any node is grouped.
C6_InsufficientNodesError ==
    (SpectralInvoked /\ Cardinality(graph_lcc.nodes) < NClusters) =>
        /\ error = Raised("InsufficientNodesError", "spectral_clustering")
        /\ clusters = <<>>

\* C7: on a graph without nodes largest_connected_component fails with an
\* EmptyGraphError, which ends the run before any strategy is invoked.
C7_EmptyGraphError ==
    (graph.nodes = {} /\ pc \notin {"load", "enrich", "reduce"}
        /\ error.in # "load_drug_gene_data") =>
        /\ error = Raised("EmptyGraphError", "largest_connected_component")
        /\ pc = "aborted"
        /\ reported = {}

\* C8: when the mapping file does not exist, the failure reaches the caller
\* as a MappingLoadError before any graph processing: no node attribute has
\* changed, nothing was reduced and no strategy has run.
C8_MappingLoadError ==
    (file.state = "missing" /\ pc # "load") =>
        /\ error = Raised("MappingLoadError", "load_drug_gene_data")
        /\ pc = "aborted"
        /\ DeepView(graph, heap) = graph_in
        /\ graph_lcc = EmptyGraph
        /\ clusters = <<>>
        /\ reported = {}

\* Number of positions of the partition that hold the node
PositionsOf(n) ==
    Cardinality(UNION {{<<i, j>> : j \in {k \in DOMAIN clusters[i] : clusters[i][k] = n}} :
                       i \in DOMAIN clusters})

\* C9: the clusters of a partition returned by a strategy are pairwise
\* disjoint, and the regrouping by label of louvain_clustering and
\* spectral_clustering puts each node of the graph in exactly one cluster.
C9_ClustersDisjoint ==
    pc \in {"analyze", "visualize"} =>
        /\ \A i \in DOMAIN clusters : \A j \in DOMAIN clusters :
              i # j => Range(clusters[i]) \cap Range(clusters[j]) = {}
        /\ name \in {3, 4} => \A n \in graph_lcc.nodes : PositionsOf(n) = 1

C9_Witness ==
    /\ pc = "analyze"
    /\ name = 4
    /\ Len(clusters) >= 3
    /\ \E i \in DOMAIN clusters : Len(clusters[i]) >= 2

UnitAnalyzed == pc = "analyzed" \/ error.in = "analyze_cluster_targets"

\* C5: for a partition with a cluster of size 0, analyze_cluster_targets
\* raises nothing and maps the index of the empty cluster to an empty list,
\* while each other cluster gets the genes whose count reaches the threshold.
C5_EmptyClusterHarmless ==
    (UnitAnalyzed /\ \E i \in DOMAIN clusters : clusters[i] = <<>>) =>
        /\ pc = "analyzed"
        /\ error = NoError
        /\ DOMAIN frequent_genes = DOMAIN clusters
        /\ \A i \in DOMAIN clusters :
              /\ clusters[i] = <<>> => frequent_genes[i] = <<>>
              /\ \A gene \in Genes :
                    gene \in Range(frequent_genes[i])
                      <=> MeetsThreshold(OccurrencesOf(gene, clusters[i]),
                                         Len(clusters[i]))

C5_Witness ==
    /\ pc = "analyzed"
    /\ \E i \in DOMAIN clusters : clusters[i] = <<>> /\ frequent_genes[i] = <<>>
    /\ \E i \in DOMAIN clusters : clusters[i] # <<>> /\ frequent_genes[i] # <<>>

\* C10: the subgraph returned by largest_connected_component shares no
\* mutable state with the source graph: after any later change made through
\* it, the nodes, edges and node attributes of the source graph, with the
\* contents of every 'genes' list, are what they were.
C10_SourceUnchanged ==
    pc = "returned" => DeepView(graph, heap) = source_at_return

\* C10, amended: the subgraph returned by largest_connected_component is a
\* copy with its own nodes, edges and attribute dictionaries: a later change
\* made through it that adds or removes a node or an edge or reassigns a
\* node attribute leaves the nodes, edges and node attributes of the source
\* graph, with the contents of every 'genes' list, as they were.  (The
\* 'genes' list objects are shared, so a change of a list in place is not
\* covered.)
C10_StructureAndAttributesUnshared ==
    [][(pc = "returned" /\ ~AppendGene)
          => DeepView(graph, heap)' = DeepView(graph, heap)]_vars

C10_Witness ==
    /\ pc = "returned"
    /\ mutations = MaxMutations
    /\ DeepView(graph, heap) = source_at_return
    /\ \E n \in graph_lcc.nodes \cap graph.nodes :
          /\ AttrOf(graph_lcc, heap, n).label # AttrOf(graph, heap, n).label
          /\ TargetGenes(graph_lcc, heap, n) # TargetGenes(graph, heap, n)

====
